---------------------------- MODULE Spec2Model ----------------------------
(***************************************************************************)
(* Gutenberg Word Frequency tool (src/pythonfinalfrancia.py).              *)
(*                                                                         *)
(* A text is a sequence of one-character strings.  The SQLite table        *)
(* word_frequencies is a set of rows [title, word, frequency].  Python's   *)
(* optional values (a text or None, a result list or None) are records     *)
(* [none, val].                                                            *)
(***************************************************************************)
EXTENDS Integers, Sequences, FiniteSets, TLC

VARIABLES
    pc,            \* "start" | "mainloop" | "crashed": position of the script
    schema,        \* TRUE once the table word_frequencies exists in franciabooks.db
    rows,          \* the rows of word_frequencies
    output_area,   \* content of the Text widget output_area
    messagebox,    \* the warning dialog the last handler popped up, or "none"
    console,       \* the line the last handler wrote with print(), or NoLine
    text,          \* get_top_words: argument text
    num_words,     \* get_top_words: argument num_words
    top_words,     \* get_top_words: returned list
    phase          \* "idle" | "input" | "done": progress of the analysed call

gui  == <<pc, schema, rows, output_area, messagebox, console>>
call == <<text, num_words, top_words, phase>>
vars == <<pc, schema, rows, output_area, messagebox, console,
          text, num_words, top_words, phase>>

---------------------------------------------------------------------------
(* Bounds of the model.                                                    *)

MaxLen == 5        \* longest text drawn for the analysed get_top_words call
MaxN == 2          \* largest num_words drawn for the analysed call

---------------------------------------------------------------------------
(* Characters.                                                             *)

LowerSeq ==
    <<"a", "b", "c", "d", "e", "f", "g", "h", "i", "j", "k", "l", "m", "n",
    "o", "p", "q", "r", "s", "t", "u", "v", "w", "x", "y", "z">>
UpperSeq ==
    <<"A", "B", "C", "D", "E", "F", "G", "H", "I", "J", "K", "L", "M", "N",
    "O", "P", "Q", "R", "S", "T", "U", "V", "W", "X", "Y", "Z">>
Digits == {"0", "1", "2", "3", "4", "5", "6", "7", "8", "9"}

Range(s) == {s[i] : i \in 1..Len(s)}
LowerLetters == Range(LowerSeq)
UpperLetters == Range(UpperSeq)
Whitespace == {" ", "\t", "\n", "\r"}

Min(a, b) == IF a <= b THEN a ELSE b
MaxOf(S) == CHOOSE m \in S : \A k \in S : k <= m

\* Python values that may be None
None == [none |-> TRUE, val |-> <<>>]
Some(v) == [none |-> FALSE, val |-> v]
\* "if x:" for a value that is None, a str or a list
Truthy(x) == ~x.none /\ x.val # <<>>

---------------------------------------------------------------------------
(* get_top_words                                                           *)

\* str.lower(), one character
lower_char(c) ==
    IF c \in UpperLetters
    THEN LowerSeq[CHOOSE i \in 1..Len(UpperSeq) : UpperSeq[i] = c]
    ELSE c

\* text.lower()
lower(s) == [i \in 1..Len(s) |-> lower_char(s[i])]

\* \w of the regular expression
IsWordChar(c) == c \in LowerLetters \cup UpperLetters \cup Digits \cup {"_"}

\* \b between s[k] and s[k+1] (k = 0: start of the string, k = Len(s): its end)
boundary(s, k) ==
    LET before == k >= 1 /\ IsWordChar(s[k])
        after  == k + 1 <= Len(s) /\ IsWordChar(s[k + 1])
    IN  before # after

\* last index of the run of [a-z] that starts at i
RECURSIVE run_end(_, _)
run_end(s, i) ==
    IF i + 1 <= Len(s) /\ s[i + 1] \in LowerLetters THEN run_end(s, i + 1) ELSE i

\* \b[a-z]+\b tried at index i: the end of the match (greedy, backtracking to
\* the longest run that ends at a \b), or 0 when there is no match at i
match_end(s, i) ==
    IF s[i] \notin LowerLetters \/ ~boundary(s, i - 1)
    THEN 0
    ELSE LET ends == {j \in i..run_end(s, i) : boundary(s, j)}
         IN  IF ends = {} THEN 0 ELSE MaxOf(ends)

\* re.findall(r'\b[a-z]+\b', s): the non-overlapping matches, left to right;
\* the search goes on behind each match (starts: the indices with a match)
RECURSIVE scan(_, _, _)
scan(s, starts, i) ==
    LET ahead == {k \in starts : k >= i}
    IN  IF ahead = {}
        THEN <<>>
        ELSE LET k == CHOOSE k \in ahead : \A m \in ahead : k <= m
                 j == match_end(s, k)
             IN  <<SubSeq(s, k, j)>> \o scan(s, starts, j + 1)

findall(s) == scan(s, {k \in 1..Len(s) : match_end(s, k) # 0}, 1)

\* Counter(words): the entries <<word, count>>, a word's entry created when
\* the word is first met, so in order of first occurrence
Counter(words) ==
    LET first == {i \in 1..Len(words) : \A j \in 1..(i - 1) : words[j] # words[i]}
        nth(k) == CHOOSE i \in first : Cardinality({j \in first : j <= i}) = k
        count(w) == Cardinality({j \in 1..Len(words) : words[j] = w})
    IN  [k \in 1..Cardinality(first) |-> <<words[nth(k)], count(words[nth(k)])>>]

\* one entry put into a list sorted by descending count, behind its equals
insert_sorted(sorted, e) ==
    LET k == Cardinality({i \in 1..Len(sorted) : sorted[i][2] >= e[2]})
    IN  SubSeq(sorted, 1, k) \o <<e>> \o SubSeq(sorted, k + 1, Len(sorted))

RECURSIVE sort_from(_, _, _)
sort_from(counter, i, sorted) ==
    IF i > Len(counter) THEN sorted
    ELSE sort_from(counter, i + 1, insert_sorted(sorted, counter[i]))

\* most_common without the ordering: the first n entries as inserted
most_common_unsorted(counter, n) == SubSeq(counter, 1, Min(n, Len(counter)))

\* Counter.most_common(n): by descending count, equal counts in order of
\* first insertion, the first n
most_common(counter, n) ==
    LET sorted == sort_from(counter, 1, <<>>)
    IN  SubSeq(sorted, 1, Min(n, Len(sorted)))

get_top_words(t, n) == most_common(Counter(findall(lower(t))), n)

\* num_words=10
DefaultNumWords == 10

---------------------------------------------------------------------------
(* extract_title                                                           *)

\* str.strip()
RECURSIVE lstrip(_)
lstrip(s) == IF s # <<>> /\ Head(s) \in Whitespace THEN lstrip(Tail(s)) ELSE s
RECURSIVE rstrip(_)
rstrip(s) ==
    IF s # <<>> /\ s[Len(s)] \in Whitespace THEN rstrip(SubSeq(s, 1, Len(s) - 1)) ELSE s
strip(s) == rstrip(lstrip(s))

\* str.split('\n'): the pieces between the line feeds
split_lines(s) ==
    LET feeds == {i \in 1..Len(s) : s[i] = "\n"}
        cut(k) == IF k = 0 THEN 0
                  ELSE IF k > Cardinality(feeds) THEN Len(s) + 1
                  ELSE CHOOSE i \in feeds : Cardinality({j \in feeds : j <= i}) = k
    IN  [k \in 1..(Cardinality(feeds) + 1) |-> SubSeq(s, cut(k - 1) + 1, cut(k) - 1)]

TitleMarker == <<"t", "i", "t", "l", "e", ":">>
UnknownTitle ==
    <<"U", "n", "k", "n", "o", "w", "n", " ", "T", "i", "t", "l", "e">>

startswith(s, prefix) ==
    Len(s) >= Len(prefix) /\ SubSeq(s, 1, Len(prefix)) = prefix

RECURSIVE title_from(_, _)
title_from(lines, i) ==
    IF i > Len(lines) THEN UnknownTitle
    ELSE LET stripped == strip(lines[i])
         IN  IF startswith(lower(stripped), TitleMarker)
             THEN strip(SubSeq(stripped, 7, Len(stripped)))
             ELSE title_from(lines, i + 1)

extract_title(book_text) == title_from(split_lines(book_text), 1)

---------------------------------------------------------------------------
(* The store: table word_frequencies of franciabooks.db                    *)

\* LIMIT 10
Limit == 10

Row(title, word, frequency) ==
    [title |-> title, word |-> word, frequency |-> frequency]

\* CREATE TABLE IF NOT EXISTS word_frequencies (...): the rows of the table
\* after the statement
create_table_if_not_exists(exists, table) == IF exists THEN table ELSE {}

\* INSERT OR IGNORE: a row in conflict stays, the new one is dropped
insert_or_ignore(table, title, word, freq) ==
    IF \E r \in table : r.title = title /\ r.word = word
    THEN table
    ELSE table \cup {Row(title, word, freq)}

\* INSERT into a table that has no primary key
insert_plain(table, title, word, freq) == table \cup {Row(title, word, freq)}

\* INSERT OR REPLACE INTO word_frequencies VALUES (title, word, freq) under
\* PRIMARY KEY (title, word): the row in conflict is deleted, the new one
\* inserted
insert_or_replace(table, title, word, freq) ==
    {r \in table : ~(r.title = title /\ r.word = word)} \cup {Row(title, word, freq)}

RECURSIVE execute_from(_, _, _, _)
execute_from(table, title, word_freqs, i) ==
    IF i > Len(word_freqs) THEN table
    ELSE execute_from(insert_or_replace(table, title, word_freqs[i][1], word_freqs[i][2]),
                      title, word_freqs, i + 1)

\* a save that first deletes the rows of the title
save_to_database_replacing_title(table, title, word_freqs, db_error) ==
    IF db_error THEN table
    ELSE execute_from({r \in table : r.title # title}, title, word_freqs, 1)

\* save_to_database: the committed table.  An sqlite3 error (connect, execute
\* or commit) leaves the try block before the commit took effect, and the
\* connection is dropped with its transaction rolled back.
save_to_database(table, title, word_freqs, db_error) ==
    IF db_error THEN table ELSE execute_from(table, title, word_freqs, 1)

\* ORDER BY frequency ASC LIMIT k
RECURSIVE order_by_frequency_asc(_, _)
order_by_frequency_asc(S, k) ==
    IF k = 0 \/ S = {} THEN {<<>>}
    ELSE UNION {
            {<<<<r.word, r.frequency>>>> \o rest :
                rest \in order_by_frequency_asc(S \ {r}, k - 1)} :
            r \in {r \in S : \A q \in S : q.frequency >= r.frequency}}

\* SELECT word, frequency ... ORDER BY frequency DESC LIMIT k over the rows S:
\* every list the statement may produce (rows of equal frequency come in an
\* order SQL leaves open)
RECURSIVE order_by_frequency_desc(_, _)
order_by_frequency_desc(S, k) ==
    IF k = 0 \/ S = {} THEN {<<>>}
    ELSE UNION {
            {<<<<r.word, r.frequency>>>> \o rest :
                rest \in order_by_frequency_desc(S \ {r}, k - 1)} :
            r \in {r \in S : \A q \in S : q.frequency <= r.frequency}}

\* cursor.fetchall() of the query of search_database
fetchall(table, title) ==
    order_by_frequency_desc({r \in table : r.title = title}, Limit)

\* search_database without the "if results" test: an empty list is returned
search_database_empty_list(table, title, db_error) ==
    IF db_error THEN {None}
    ELSE {Some(results) : results \in fetchall(table, title)}

\* search_database: every value the call may return
search_database(table, title, db_error) ==
    IF db_error THEN {None}
    ELSE {IF results # <<>> THEN Some(results) ELSE None :
            results \in fetchall(table, title)}

---------------------------------------------------------------------------
(* Inputs: what the user types and what the network serves.                *)

\* 'Title: x\na a b b b c c c c d d d d d'
BookX1 ==
    <<"T", "i", "t", "l", "e", ":", " ", "x", "\n", "a", " ", "a", " ",
    "b", " ", "b", " ", "b", " ", "c", " ", "c", " ", "c", " ", "c", " ",
    "d", " ", "d", " ", "d", " ", "d", " ", "d">>
\* ' TITLE:  x \r\ne e e e e e f f f f f f f g g g g g g g g h h h h h h h h h i i i i i i i i i i'
BookX2 ==
    <<" ", "T", "I", "T", "L", "E", ":", " ", " ", "x", " ", "\r", "\n",
    "e", " ", "e", " ", "e", " ", "e", " ", "e", " ", "e", " ", "f", " ",
    "f", " ", "f", " ", "f", " ", "f", " ", "f", " ", "f", " ", "g", " ",
    "g", " ", "g", " ", "g", " ", "g", " ", "g", " ", "g", " ", "g", " ",
    "h", " ", "h", " ", "h", " ", "h", " ", "h", " ", "h", " ", "h", " ",
    "h", " ", "h", " ", "i", " ", "i", " ", "i", " ", "i", " ", "i", " ",
    "i", " ", "i", " ", "i", " ", "i", " ", "i">>
\* 'a a a'
BookA ==
    <<"a", " ", "a", " ", "a">>
\* 'A b 1c'
BookB ==
    <<"A", " ", "b", " ", "1", "c">>
\* '12'
BookNoWords ==
    <<"1", "2">>
\* 'Title:'
BookNoTitle ==
    <<"T", "i", "t", "l", "e", ":">>
\* 'Title: y\np p q q q r r r r s s s s s t t t t t t u u u u u u u v v v v v v v v w w w w w w w w w z z z z z z z z z z'
BookY ==
    <<"T", "i", "t", "l", "e", ":", " ", "y", "\n", "p", " ", "p", " ",
    "q", " ", "q", " ", "q", " ", "r", " ", "r", " ", "r", " ", "r", " ",
    "s", " ", "s", " ", "s", " ", "s", " ", "s", " ", "t", " ", "t", " ",
    "t", " ", "t", " ", "t", " ", "t", " ", "u", " ", "u", " ", "u", " ",
    "u", " ", "u", " ", "u", " ", "u", " ", "v", " ", "v", " ", "v", " ",
    "v", " ", "v", " ", "v", " ", "v", " ", "v", " ", "w", " ", "w", " ",
    "w", " ", "w", " ", "w", " ", "w", " ", "w", " ", "w", " ", "w", " ",
    "z", " ", "z", " ", "z", " ", "z", " ", "z", " ", "z", " ", "z", " ",
    "z", " ", "z", " ", "z">>
Library ==
    {<<>>, BookX1, BookX2, BookA, BookB, BookNoWords, BookNoTitle, BookY}

\* download_book(url): the decoded body, or None after any exception
download_book == {None} \cup {Some(t) : t \in Library}

\* what title_entry.get() and url_entry.get() return when a button is clicked
TitleInputs ==
    {<<>>, <<" ", "x", " ">>, <<"y">>, UnknownTitle}
UrlInputs == {<<" ">>, <<"u", " ">>}

---------------------------------------------------------------------------
(* The script: database setup, window, handlers.                           *)

EmptyOutput == [msg |-> "", title |-> <<>>, pairs |-> <<>>]
NoLine == <<"", <<>>>>

Init ==
    /\ pc = "start"
    /\ schema = FALSE
    /\ rows = {}
    /\ output_area = EmptyOutput
    /\ messagebox = "none"
    /\ console = NoLine
    /\ text = <<>>
    /\ num_words = DefaultNumWords
    /\ top_words = <<>>
    /\ phase = "idle"

\* initialize_database(), then the window is built with an empty output_area
\* and mainloop() entered.  The function has no try block: an sqlite3 error
\* ends the script with a traceback.
initialize_database(db_error) ==
    /\ pc = "start"
    /\ IF db_error
       THEN /\ pc' = "crashed"
            /\ UNCHANGED <<schema, rows>>
       ELSE /\ pc' = "mainloop"
            /\ schema' = TRUE
            /\ rows' = create_table_if_not_exists(schema, rows)
    /\ UNCHANGED <<output_area, messagebox, console>>
    /\ UNCHANGED call

\* button "Search by Title", with `entered` in title_entry
on_search_title(entered, db_error) ==
    /\ pc = "mainloop"
    /\ LET title == strip(entered)
       IN  IF title = <<>>
           THEN /\ messagebox' = "Missing Title"
                /\ console' = NoLine
                /\ UNCHANGED output_area
           ELSE \E results \in search_database(rows, title, db_error) :
                /\ messagebox' = "none"
                /\ console' = IF db_error THEN <<"Error searching database", <<>>>>
                              ELSE NoLine
                /\ output_area' =
                      IF Truthy(results)
                      THEN [msg |-> "Top words for", title |-> title,
                            pairs |-> results.val]
                      ELSE [msg |-> "Book was not found.", title |-> <<>>,
                            pairs |-> <<>>]
    /\ UNCHANGED <<pc, schema, rows>>
    /\ UNCHANGED call

\* on_fetch_from_url after a download that gave a text: title, top words,
\* save, and the "Saved" message
analyse_and_save(book_text, db_error) ==
    LET title == extract_title(book_text.val)
        found == get_top_words(book_text.val, DefaultNumWords)
    IN  /\ rows' = save_to_database(rows, title, found, db_error)
        /\ console' = IF db_error THEN <<"Error saving to database", <<>>>>
                      ELSE <<"Saved to the database", title>>
        /\ output_area' = [msg |-> "Saved to database with top words",
                           title |-> title, pairs |-> found]

\* a failed download that first empties the table
report_download_failure_clearing(book_text) ==
    /\ rows' = {}
    /\ console' = IF book_text.none THEN <<"we had an error downloaded book", <<>>>>
                  ELSE NoLine
    /\ output_area' = [msg |-> "Book could not be downloaded.",
                       title |-> <<>>, pairs |-> <<>>]

\* on_fetch_from_url after a download that gave no text (download_book
\* printed its error and returned None, or the body was empty)
report_download_failure(book_text) ==
    /\ rows' = rows
    /\ console' = IF book_text.none THEN <<"we had an error downloaded book", <<>>>>
                  ELSE NoLine
    /\ output_area' = [msg |-> "Book could not be downloaded.",
                       title |-> <<>>, pairs |-> <<>>]

\* button "Fetch from URL", with `entered` in url_entry; book_text is what
\* download_book(url) returns
on_fetch_from_url(entered, book_text, db_error) ==
    /\ pc = "mainloop"
    /\ LET url == strip(entered)
       IN  IF url = <<>>
           THEN /\ messagebox' = "Missing info"
                /\ console' = NoLine
                /\ UNCHANGED <<rows, output_area>>
           ELSE /\ messagebox' = "none"
                /\ IF Truthy(book_text)
                   THEN analyse_and_save(book_text, db_error)
                   ELSE report_download_failure(book_text)
    /\ UNCHANGED <<pc, schema>>
    /\ UNCHANGED call

\* the window is closed (or the script had ended) and the script is run
\* again: franciabooks.db stays on disk, everything else starts afresh
Restart ==
    /\ pc \in {"mainloop", "crashed"}
    /\ pc' = "start"
    /\ output_area' = EmptyOutput
    /\ messagebox' = "none"
    /\ console' = NoLine
    /\ UNCHANGED <<schema, rows>>
    /\ UNCHANGED call

Next ==
    \/ \E db_error \in BOOLEAN : initialize_database(db_error)
    \/ \E entered \in TitleInputs, db_error \in BOOLEAN :
          on_search_title(entered, db_error)
    \/ \E entered \in UrlInputs, book_text \in download_book, db_error \in BOOLEAN :
          on_fetch_from_url(entered, book_text, db_error)
    \/ Restart

Spec == Init /\ [][Next]_vars

---------------------------------------------------------------------------
(* The analysed call: get_top_words(text, num_words) on drawn arguments.   *)

TopAlphabet == {"a", "b", "A", " ", "1"}
ShortTexts == UNION {[1..k -> TopAlphabet] : k \in 0..MaxLen}
\* the sample of the specification: top_words("the the the cat", 2)
ExampleText ==
    <<"t", "h", "e", " ", "t", "h", "e", " ", "t", "h", "e", " ", "c", "a",
    "t">>

InitTop ==
    /\ text \in ShortTexts \cup {ExampleText}
    /\ num_words \in 0..MaxN
    /\ top_words = <<>>
    /\ phase = "input"
    /\ pc = "start"
    /\ schema = FALSE
    /\ rows = {}
    /\ output_area = EmptyOutput
    /\ messagebox = "none"
    /\ console = NoLine

CallGetTopWords ==
    /\ phase = "input"
    /\ top_words' = get_top_words(text, num_words)
    /\ phase' = "done"
    /\ UNCHANGED <<text, num_words>>
    /\ UNCHANGED gui

NextTop == CallGetTopWords

SpecTop == InitTop /\ [][NextTop]_vars

---------------------------------------------------------------------------
(* C6                                                                      *)

\* the number of places where w stands in s as a word: a run of letters with
\* no word character next to it on either side
Occurrences(w, s) ==
    Cardinality({i \in 1..(Len(s) - Len(w) + 1) :
        /\ SubSeq(s, i, i + Len(w) - 1) = w
        /\ (i = 1 \/ ~IsWordChar(s[i - 1]))
        /\ (i + Len(w) - 1 = Len(s) \/ ~IsWordChar(s[i + Len(w)]))})

\* every non-empty run of lowercase letters that stands somewhere in s
LetterRuns(s) ==
    {SubSeq(s, i, j) : i \in 1..Len(s), j \in 1..Len(s)} \cap
    {r \in {SubSeq(s, i, j) : i \in 1..Len(s), j \in 1..Len(s)} :
        r # <<>> /\ \A k \in 1..Len(r) : r[k] \in LowerLetters}

Returned(tw) == {tw[i][1] : i \in 1..Len(tw)}

\* C6: get_top_words(text, n) returns at most n entries, each count at least
\* 1, counts non-increasing; each entry's count is the number of occurrences
\* of its word in the lower-cased text, and no word left out occurs more
\* often than a returned one.  The sample call returns <<the,3>>, <<cat,1>>.
C6_TopWords ==
    phase = "done" =>
        LET low == lower(text)
        IN  /\ Len(top_words) <= num_words
            /\ \A i \in 1..Len(top_words) :
                /\ top_words[i][2] >= 1
                /\ top_words[i][2] = Occurrences(top_words[i][1], low)
                /\ \A j \in 1..Len(top_words) :
                      i < j => top_words[i][2] >= top_words[j][2]
                /\ \A w \in LetterRuns(low) \ Returned(top_words) :
                      Occurrences(w, low) <= top_words[i][2]
            /\ (text = ExampleText /\ num_words = 2) =>
                  top_words = << <<<<"t", "h", "e">>, 3>>, <<<<"c", "a", "t">>, 1>> >>

\* a call that left a word out and returned a word written in upper case
C6_Witness ==
    /\ phase = "done"
    /\ Len(top_words) = 1
    /\ num_words = 1
    /\ LetterRuns(lower(text)) \ Returned(top_words) # {}
    /\ \E w \in LetterRuns(lower(text)) \ Returned(top_words) :
          Occurrences(w, lower(text)) >= 1
    /\ \E i \in 1..Len(text) : text[i] \in UpperLetters

---------------------------------------------------------------------------
(* Claims about the store and the handlers, checked under Spec.            *)

SavedShown == output_area.msg = "Saved to database with top words"
SavedLine(title) == <<"Saved to the database", title>>
Keys(table) == {<<r.title, r.word>> : r \in table}
Titles(table) == {r.title : r \in table}
RowsOf(table, title) == {r \in table : r.title = title}
PairsOf(list) == {list[i] : i \in 1..Len(list)}
WordsOf(list) == {list[i][1] : i \in 1..Len(list)}
Descending(list) ==
    \A i \in 1..Len(list) : \A j \in 1..Len(list) : i < j => list[i][2] >= list[j][2]
\* the titles looked up: those stored and those a user enters
LookupTitles == Titles(rows) \cup {strip(t) : t \in TitleInputs}

\* the lookup returns exactly the pairs of `list`, by descending frequency
ReturnsExactly(table, title, list) ==
    \A res \in search_database(table, title, FALSE) :
        /\ PairsOf(res.val) = PairsOf(list)
        /\ Len(res.val) = Len(list)
        /\ Descending(res.val)

\* C1 as stated: after a committed upsert(X, top_words(text)), in any store
\* state, lookup(X) returns exactly the pairs just saved, by descending
\* frequency.
C1_RoundTripAnyStore ==
    (SavedShown /\ console = SavedLine(output_area.title)) =>
        ReturnsExactly(rows, output_area.title, output_area.pairs)

\* C1 as amended: when the store held no row of X with a word outside the
\* saved set before the upsert, a committed upsert(X, top_words(text))
\* followed by lookup(X) returns exactly the pairs just saved, by descending
\* frequency (the absence signal when no pair was saved).
C1_RoundTripNoStale ==
    [][(/\ SavedShown'
        /\ console' = SavedLine(output_area'.title)
        /\ \A r \in RowsOf(rows, output_area'.title) :
              r.word \in WordsOf(output_area'.pairs))
       => ReturnsExactly(rows', output_area'.title, output_area'.pairs)]_vars

\* a committed save of Limit pairs under a title that has no other row, with
\* rows of other titles in the store
C1_Witness ==
    /\ SavedShown
    /\ console = SavedLine(output_area.title)
    /\ Len(output_area.pairs) = Limit
    /\ RowsOf(rows, output_area.title) =
          {Row(output_area.title, p[1], p[2]) : p \in PairsOf(output_area.pairs)}
    /\ Titles(rows) # {output_area.title}

\* C2: a fetch whose download failed leaves every row of the store as it was.
C2_FailedFetchKeepsStore ==
    [][console' = <<"we had an error downloaded book", <<>>>> => rows' = rows]_vars

\* a failed download in front of a store that holds rows
C2_Witness ==
    /\ console = <<"we had an error downloaded book", <<>>>>
    /\ output_area.msg = "Book could not be downloaded."
    /\ rows # {}

\* C3: there is at most one row, so one frequency, for each (title, word).
C3_OneRowPerKey ==
    \A r \in rows : \A q \in rows :
        (r.title = q.title /\ r.word = q.word) => r = q

\* a key saved twice with different frequencies, next to a stale row
C3_Witness ==
    /\ Row(UnknownTitle, <<"a">>, 3) \in rows
    /\ Row(UnknownTitle, <<"b">>, 1) \in rows
    /\ Cardinality(RowsOf(rows, <<"x">>)) > Limit

\* C4: with the store working, lookup(title) returns the absence signal
\* exactly when no row exists for the title, and never an empty sequence.
C4_AbsenceIffNoRows ==
    \A title \in LookupTitles :
        \A res \in search_database(rows, title, FALSE) :
            /\ res.none <=> RowsOf(rows, title) = {}
            /\ ~res.none => res.val # <<>>

\* the store holds rows of one looked-up title and none of another
C4_Witness ==
    /\ pc = "mainloop"
    /\ \E t \in LookupTitles : RowsOf(rows, t) # {}
    /\ \E t \in LookupTitles : RowsOf(rows, t) = {}
    /\ output_area.msg = "Book was not found."

\* C5: lookup(title) returns min(Limit, rows of the title) pairs, each a
\* stored row of the title, frequencies non-increasing, and no row left out
\* has a frequency greater than a returned one.
C5_LookupTopRows ==
    \A title \in LookupTitles :
        \A list \in fetchall(rows, title) :
            /\ Len(list) = Min(Limit, Cardinality(RowsOf(rows, title)))
            /\ \A i \in 1..Len(list) : Row(title, list[i][1], list[i][2]) \in rows
            /\ Descending(list)
            /\ \A r \in RowsOf(rows, title) :
                  <<r.word, r.frequency>> \notin PairsOf(list) =>
                      \A i \in 1..Len(list) : r.frequency <= list[i][2]

\* a title with more rows than the limit has been looked up
C5_Witness ==
    /\ output_area.msg = "Top words for"
    /\ Cardinality(RowsOf(rows, output_area.title)) > Limit
    /\ Len(output_area.pairs) = Limit

\* C7 as stated: a store error in initialize_database, save_to_database or
\* search_database never ends the process.
C7_NoStoreErrorIsFatal == pc # "crashed"

\* C8 as stated: the "Saved" message is shown only when the rows were
\* committed; an upsert that hit a store error is reported as a failure.
C8_SavedOnlyWhenCommitted ==
    /\ console = <<"Error saving to database", <<>>>> => ~SavedShown
    /\ SavedShown =>
          \A p \in PairsOf(output_area.pairs) :
              Row(output_area.title, p[1], p[2]) \in rows

\* C9: no step removes a key, and a step changes only rows whose key is
\* (title, w) for the title and a word w of an upsert it committed.
C9_KeysOnlyGrow ==
    [][/\ Keys(rows) \subseteq Keys(rows')
       /\ \A r \in rows :
             r \in rows' \/ (/\ console' = SavedLine(r.title)
                             /\ output_area'.title = r.title
                             /\ r.word \in WordsOf(output_area'.pairs))]_vars

\* a committed upsert next to a stale row of its title and a replaced row
C9_Witness ==
    /\ SavedShown
    /\ console = SavedLine(UnknownTitle)
    /\ output_area.pairs = << <<<<"a">>, 3>> >>
    /\ Row(UnknownTitle, <<"b">>, 1) \in rows
    /\ Row(UnknownTitle, <<"a">>, 3) \in rows
    /\ Titles(rows) # {UnknownTitle}

\* C10 as stated: while "Saved '<title>' to database" is displayed, a search
\* for that title (store working) displays its word frequencies, not "Book
\* was not found" nor the missing-title warning.
C10_SavedThenFound ==
    [][(/\ SavedShown
        /\ \E entered \in TitleInputs :
              /\ strip(entered) = output_area.title
              /\ on_search_title(entered, FALSE))
       => (/\ output_area'.msg = "Top words for"
           /\ output_area'.title = output_area.title
           /\ messagebox' # "Missing Title")]_vars

=============================================================================
